---- MODULE Spec2Model ----
(***************************************************************************)
(* Model of scripts/export_memos.py: the MemosExporter pipeline.           *)
(* One run of main(): host check, directory creation, identity lookup,     *)
(* paginated listing, the per-memo loop (details, attachment metadata,     *)
(* downloads with filename de-duplication, record building) and the final  *)
(* save of the report.  Every server answer and every filesystem outcome   *)
(* is an input chosen from a small set.                                    *)
(***************************************************************************)
EXTENDS Integers, Sequences, FiniteSets, TLC

\* ------------------------------------------------------------------ bounds
MaxPages == 2      \* pages the server serves before its listing ends
MaxPageLen == 2    \* memo summaries per page
MaxMemos == 2      \* memo summaries in the whole listing
MaxAtt == 2        \* attachment-metadata entries per memo

\* ------------------------------------------------------------- JSON values
\* A JSON value that is not an object (a string, a number, a list): .get fails.
NotObj == [kind |-> "notobj", name |-> "", content |-> ""]
\* The empty object {} (falsy in Python).
EmptyObj == [kind |-> "empty", name |-> "", content |-> ""]

\* Elements the server may put in a page's "memos" list.
MemoSummaries ==
    { NotObj,
      [kind |-> "obj", name |-> "", content |-> "s"],
      [kind |-> "obj", name |-> "m1", content |-> "s"] }

\* The "nextPageToken" of a page: missing, empty, or an opaque string.
Absent == "<absent>"
Tokens == {Absent, "", "t1"}

\* Python truthiness of a token string.
Truthy(tok) == tok # ""

\* response.get("nextPageToken", "")
NextPageToken(resp) == IF resp.token = Absent THEN "" ELSE resp.token

SeqsUpTo(S, n) == UNION { [1..k -> S] : k \in 0..n }

PageResponses == [memos : SeqsUpTo(MemoSummaries, MaxPageLen), token : Tokens]

VARIABLES
    pc,                \* position in main()/export_memos()
    exit_code,         \* -1 while running, then the process exit status
    fatal,             \* the phase whose exception reached the outer except
    all_memos,         \* list_memos: accumulated summaries
    page_token,        \* list_memos: token of the next request
    requests,          \* the pageToken sent with each list request, in order
    responses,         \* the pages the server answered, in order
    user,              \* export_data["user"]
    total_memos,       \* export_data["summary"]["total_memos"]
    total_attachments, \* export_data["summary"]["total_attachments"]
    memos,             \* export_data["memos"]
    export_errors,     \* export_data["summary"]["export_errors"]
    idx,               \* 0-based count of loop iterations completed
    memo_detail,       \* export_memos local
    attachments,       \* export_memos local
    att_i,             \* attachments already iterated in the current memo
    attachment_refs,   \* export_memos local
    fs,                \* files on disk: path -> number of the download that wrote it
    saved,             \* memos_export.json written by this run
    memoSrc,           \* for each record of memos, the listing index it came from
    errSrc,            \* for each entry of export_errors, the listing index
    skipped,           \* listing indexes skipped for an empty name
    detailFailed,      \* listing indexes whose detail fetch failed
    calls,             \* log of download_attachment calls that wrote or raised
    apiFailures        \* the fatal lookups that failed: "user", "list"

ctlVars == <<pc, exit_code, fatal>>
listVars == <<all_memos, page_token, requests, responses>>
reportVars == <<user, total_memos, total_attachments, memos, export_errors>>
loopVars == <<idx, memo_detail, attachments, att_i, attachment_refs>>
fsVars == <<fs, saved>>
ghostVars == <<memoSrc, errSrc, skipped, detailFailed, calls, apiFailures>>
vars == <<ctlVars, listVars, reportVars, loopVars, fsVars, ghostVars>>

\* ------------------------------------------------------------ file names
\* A file name as pathlib splits it: an optional leading "../", the stem
\* (a base word followed by the numbers of its "_<n>" parts) and the suffix.
\* base = "" is the empty string.
EmptyName == [up |-> FALSE, base |-> "", tail |-> <<>>, suffix |-> ""]
Filenames ==
    { [up |-> FALSE, base |-> "photo", tail |-> <<>>, suffix |-> ".png"],
      [up |-> TRUE, base |-> "photo", tail |-> <<>>, suffix |-> ".png"] }

\* Directories of the output tree a path can land in.
AttachmentsDir == "attachments"
OutputDir == "output"

\* Files the attachments directory may hold before the run (writer 0).
InitialDisks ==
    { <<>>,
      [p \in {[dir |-> AttachmentsDir, base |-> "photo", tail |-> <<>>,
               suffix |-> ".png"]} |-> 0] }

Init ==
    /\ pc = "main"
    /\ exit_code = -1
    /\ fatal = "none"
    /\ all_memos = <<>>
    /\ page_token = ""
    /\ requests = <<>>
    /\ responses = <<>>
    /\ user = "None"
    /\ total_memos = 0
    /\ total_attachments = 0
    /\ memos = <<>>
    /\ export_errors = <<>>
    /\ idx = 0
    /\ memo_detail = EmptyObj
    /\ attachments = [iterable |-> TRUE, items |-> <<>>]
    /\ att_i = 0
    /\ attachment_refs = <<>>
    /\ fs \in InitialDisks
    /\ saved = FALSE
    /\ memoSrc = <<>>
    /\ errSrc = <<>>
    /\ skipped = {}
    /\ detailFailed = {}
    /\ calls = <<>>
    /\ apiFailures = {}

\* -------------------------------------------------------------- control
\* sys.exit(1): the process ends with status 1.
SysExit1(phase) ==
    /\ pc' = "exit"
    /\ exit_code' = 1
    /\ fatal' = phase

\* OuterExcept as it would be if the failure were logged and the run went on.
OuterExceptContinue(phase) ==
    /\ pc' = "loop"
    /\ fatal' = phase
    /\ UNCHANGED exit_code

\* The outer "except Exception" of export_memos: print and sys.exit(1).
OuterExcept(phase) == SysExit1(phase)

\* main(): the host must start with http:// or https://.
Main ==
    /\ pc = "main"
    /\ \E hostOk \in BOOLEAN :
          IF hostOk
          THEN pc' = "dirs" /\ UNCHANGED <<exit_code, fatal>>
          ELSE SysExit1("host")
    /\ UNCHANGED <<listVars, reportVars, loopVars, fsVars, ghostVars>>

\* ensure_directories(): mkdir(parents=True, exist_ok=True) twice.
EnsureDirectories ==
    /\ pc = "dirs"
    /\ \E ok \in BOOLEAN :
          IF ok
          THEN pc' = "user" /\ UNCHANGED <<exit_code, fatal>>
          ELSE OuterExcept("dirs")
    /\ UNCHANGED <<listVars, reportVars, loopVars, fsVars, ghostVars>>

\* get_current_user(): one api_call; a failure is re-raised.
GetCurrentUser ==
    /\ pc = "user"
    /\ \E ok \in BOOLEAN :
          IF ok
          THEN /\ user' = "set"
               /\ pc' = "list"
               /\ UNCHANGED <<exit_code, fatal, apiFailures>>
          ELSE /\ OuterExcept("user")
               /\ apiFailures' = apiFailures \cup {"user"}
               /\ UNCHANGED user
    /\ UNCHANGED <<total_memos, total_attachments, memos, export_errors>>
    /\ UNCHANGED <<listVars, loopVars, fsVars>>
    /\ UNCHANGED <<memoSrc, errSrc, skipped, detailFailed, calls>>

\* ------------------------------------------------------------ list_memos
\* Extend as it would be if each page replaced the accumulated list.
ExtendReplacing(all, page) == page

\* all_memos.extend(memos)
Extend(all, page) == all \o page

\* CountMemos as it would be if only memos with a name were counted.
CountMemosNamed(ms) == Cardinality({i \in 1..Len(ms) : ms[i].name # ""})

\* len(memos), stored as summary.total_memos
CountMemos(ms) == Len(ms)

\* "if not page_token: break"
LastPage(tok) == ~Truthy(tok)

\* The pages a finite listing can answer to the next request.
Servable(resp) ==
    /\ Len(all_memos) + Len(resp.memos) <= MaxMemos
    /\ Len(requests) + 1 >= MaxPages => ~Truthy(NextPageToken(resp))

\* One iteration of the while loop whose api_call succeeds; on the last
\* page list_memos returns and export_memos stores len(memos).
ListMemosPage ==
    /\ pc = "list"
    /\ \E resp \in PageResponses :
          /\ Servable(resp)
          /\ requests' = Append(requests, page_token)
          /\ responses' = Append(responses, resp)
          /\ all_memos' = Extend(all_memos, resp.memos)
          /\ page_token' = NextPageToken(resp)
          /\ IF LastPage(page_token')
             THEN /\ total_memos' = CountMemos(all_memos')
                  /\ pc' = "loop"
             ELSE /\ pc' = "list"
                  /\ UNCHANGED total_memos
    /\ UNCHANGED <<exit_code, fatal>>
    /\ UNCHANGED <<user, total_attachments, memos, export_errors>>
    /\ UNCHANGED <<loopVars, fsVars, ghostVars>>

\* One iteration whose api_call raises: printed, re-raised, fatal.
ListMemosFail ==
    /\ pc = "list"
    /\ requests' = Append(requests, page_token)
    /\ OuterExcept("list")
    /\ apiFailures' = apiFailures \cup {"list"}
    /\ UNCHANGED <<all_memos, page_token, responses>>
    /\ UNCHANGED <<reportVars, loopVars, fsVars>>
    /\ UNCHANGED <<memoSrc, errSrc, skipped, detailFailed, calls>>

\* ---------------------------------------------------- per-memo fetchers
\* The memo summary the for loop is at.
Memo == all_memos[idx + 1]

\* Bodies a successful GET /api/v1/{memo} can carry as the detail: the empty
\* object, a memo object, or a value that is no object.
DetailObj == [kind |-> "obj", name |-> "m1", content |-> "d"]
DetailResponses ==
    [ok : {TRUE}, body : {EmptyObj, DetailObj, NotObj}]
        \cup {[ok |-> FALSE, body |-> EmptyObj]}

\* get_memo_details(): the detail, or {} when the call fails.
get_memo_details(r) == IF r.ok THEN r.body ELSE EmptyObj

\* DetailOrSummary as it would be without the fallback to the summary.
DetailNoFallback(detail, memo) == detail

\* "if not memo_detail: memo_detail = memo"
DetailOrSummary(detail, memo) == IF detail.kind = "empty" THEN memo ELSE detail

\* Entries of an "attachments" list: a value that is no object, an object
\* without a resource name, an object with name and filename.
AttNotObj == [kind |-> "notobj", name |-> "", filename |-> EmptyName]
AttachmentValues ==
    {AttNotObj}
        \cup [kind : {"obj"}, name : {""}, filename : {EmptyName}]
        \cup [kind : {"obj"}, name : {"a1"}, filename : Filenames]

\* Bodies of GET /api/v1/{memo}/attachments: "attachments" is a list or null.
AttachmentsNull == [iterable |-> FALSE, items |-> <<>>]
AttachmentsResponses ==
    [ok : {TRUE},
     body : {AttachmentsNull}
              \cup [iterable : {TRUE}, items : SeqsUpTo(AttachmentValues, MaxAtt)]]
        \cup {[ok |-> FALSE, body |-> AttachmentsNull]}

\* get_memo_attachments(): the list, or [] when the call fails.
get_memo_attachments(r) ==
    IF r.ok THEN r.body ELSE [iterable |-> TRUE, items |-> <<>>]

\* --------------------------------------------------- download_attachment
\* self.attachments_dir / filename
FirstPath(f) ==
    [dir |-> IF f.up THEN OutputDir ELSE AttachmentsDir,
     base |-> f.base, tail |-> f.tail, suffix |-> f.suffix]

\* self.attachments_dir / f"{original_stem}_{counter}{original_suffix}"
Candidate(f, counter) ==
    [dir |-> AttachmentsDir, base |-> f.base,
     tail |-> Append(f.tail, counter), suffix |-> f.suffix]

RECURSIVE Dedup(_, _, _)
\* The "while file_path.exists()" loop, entered with counter.
Dedup(f, counter, disk) ==
    IF Candidate(f, counter) \notin DOMAIN disk
    THEN Candidate(f, counter)
    ELSE Dedup(f, counter + 1, disk)

\* The path write_bytes is called on.
TargetPath(f, disk) ==
    IF FirstPath(f) \notin DOMAIN disk THEN FirstPath(f) ELSE Dedup(f, 1, disk)

\* f"attachments/{file_path.name}"
RelativePath(p) == [p EXCEPT !.dir = AttachmentsDir]

NoPath == [dir |-> "", base |-> "", tail |-> <<>>, suffix |-> ""]

\* How write_bytes can end.
WriteOutcomes == {"ok", "fail", "partial"}

\* download_attachment(attachment) given how the GET and the write end:
\* what the caller sees ("path", "none" or "raise"), the file written and
\* the relative path returned.
download_attachment(att, netOk, write, disk) ==
    IF att.kind # "obj"
    THEN \* attachment.get raises, and so does the handler's attachment.get
         [outcome |-> "raise", written |-> NoPath, rel |-> NoPath]
    ELSE IF att.name = "" \/ att.filename.base = ""
    THEN [outcome |-> "none", written |-> NoPath, rel |-> NoPath]
    ELSE IF ~netOk \/ write = "fail"
    THEN [outcome |-> "none", written |-> NoPath, rel |-> NoPath]
    ELSE IF write = "partial"
    THEN \* write_bytes created the file and then failed
         [outcome |-> "none", written |-> TargetPath(att.filename, disk),
          rel |-> NoPath]
    ELSE [outcome |-> "path",
          written |-> TargetPath(att.filename, disk),
          rel |-> RelativePath(TargetPath(att.filename, disk))]

\* ----------------------------------------------------------- export_memos
\* The locals of one iteration, dead once it ends.
ResetLocals ==
    /\ memo_detail' = EmptyObj
    /\ attachments' = [iterable |-> TRUE, items |-> <<>>]
    /\ att_i' = 0
    /\ attachment_refs' = <<>>

\* AppendRecord as it would be if new entries were inserted at the front.
PrependRecord(seq, x) == <<x>> \o seq

\* list.append
AppendRecord(seq, x) == Append(seq, x)

\* The record built from memo_detail and appended to export_data["memos"].
MemoExport(detail, refs) ==
    [name |-> detail.name, content |-> detail.content, attachments |-> refs]

\* PerMemoExcept as it would be if the failed memo were exported as well,
\* from its summary.
PerMemoExceptKeep(reason) ==
    /\ export_errors' = Append(export_errors, [memo |-> Memo.name, error |-> reason])
    /\ errSrc' = Append(errSrc, idx + 1)
    /\ memos' = Append(memos, MemoExport(Memo, <<>>))
    /\ memoSrc' = Append(memoSrc, idx + 1)
    /\ idx' = idx + 1
    /\ pc' = "loop"
    /\ ResetLocals
    /\ UNCHANGED <<exit_code, fatal>>

\* The per-memo "except Exception": one message appended, next memo.
PerMemoExcept(reason) ==
    /\ export_errors' = AppendRecord(export_errors, [memo |-> Memo.name, error |-> reason])
    /\ errSrc' = AppendRecord(errSrc, idx + 1)
    /\ idx' = idx + 1
    /\ pc' = "loop"
    /\ ResetLocals
    /\ UNCHANGED <<exit_code, fatal, memos, memoSrc>>

\* Head of one iteration: the print before the try, the name check, and
\* get_memo_details with its fallback.
MemoBegin ==
    /\ pc = "loop"
    /\ idx < Len(all_memos)
    /\ IF Memo.kind # "obj"
       THEN \* memo.get in the print raises outside the try
            /\ OuterExcept("memo")
            /\ UNCHANGED <<loopVars, ghostVars>>
       ELSE IF Memo.name = ""
       THEN \* continue
            /\ idx' = idx + 1
            /\ skipped' = skipped \cup {idx + 1}
            /\ UNCHANGED <<ctlVars, memo_detail, attachments, att_i, attachment_refs>>
            /\ UNCHANGED <<memoSrc, errSrc, detailFailed, calls, apiFailures>>
       ELSE \E r \in DetailResponses :
               /\ memo_detail' = DetailOrSummary(get_memo_details(r), Memo)
               /\ detailFailed' = IF r.ok THEN detailFailed
                                          ELSE detailFailed \cup {idx + 1}
               /\ pc' = "attachments"
               /\ UNCHANGED <<exit_code, fatal, idx, attachments, att_i, attachment_refs>>
               /\ UNCHANGED <<memoSrc, errSrc, skipped, calls, apiFailures>>
    /\ UNCHANGED <<listVars, reportVars, fsVars>>

\* get_memo_attachments and the start of the for loop over its result.
GetMemoAttachments ==
    /\ pc = "attachments"
    /\ \E r \in AttachmentsResponses :
          IF get_memo_attachments(r).iterable
          THEN /\ attachments' = get_memo_attachments(r)
               /\ att_i' = 0
               /\ attachment_refs' = <<>>
               /\ pc' = "download"
               /\ UNCHANGED <<exit_code, fatal, idx, memo_detail>>
               /\ UNCHANGED <<memos, export_errors, memoSrc, errSrc>>
          ELSE \* iterating None raises TypeError
               PerMemoExcept("attachments")
    /\ UNCHANGED <<user, total_memos, total_attachments>>
    /\ UNCHANGED <<listVars, fsVars, skipped, detailFailed, calls, apiFailures>>

\* One iteration of "for attachment in attachments".
DownloadAttachment ==
    /\ pc = "download"
    /\ att_i < Len(attachments.items)
    /\ \E netOk \in BOOLEAN, write \in WriteOutcomes :
          LET att == attachments.items[att_i + 1]
              res == download_attachment(att, netOk, write, fs)
              call == [src |-> idx + 1, outcome |-> res.outcome,
                       written |-> res.written, rel |-> res.rel,
                       fresh |-> res.written \notin DOMAIN fs]
          IN  CASE res.outcome = "raise" ->
                     /\ PerMemoExcept("attachment")
                     /\ calls' = Append(calls, call)
                     /\ UNCHANGED <<fs, total_attachments>>
                [] res.outcome = "none" ->
                     /\ att_i' = att_i + 1
                     /\ fs' = IF res.written = NoPath THEN fs
                              ELSE (res.written :> (Len(calls) + 1)) @@ fs
                     /\ calls' = IF res.written = NoPath THEN calls
                                 ELSE Append(calls, call)
                     /\ UNCHANGED <<ctlVars, idx, memo_detail, attachments, attachment_refs>>
                     /\ UNCHANGED total_attachments
                     /\ UNCHANGED <<memos, export_errors, memoSrc, errSrc>>
                [] res.outcome = "path" ->
                     /\ fs' = (res.written :> (Len(calls) + 1)) @@ fs
                     /\ attachment_refs' = Append(attachment_refs,
                            [id |-> att.name, filename |-> att.filename,
                             file_path |-> res.rel])
                     /\ total_attachments' = total_attachments + 1
                     /\ calls' = Append(calls, call)
                     /\ att_i' = att_i + 1
                     /\ UNCHANGED <<ctlVars, idx, memo_detail, attachments>>
                     /\ UNCHANGED <<memos, export_errors, memoSrc, errSrc>>
    /\ UNCHANGED <<user, total_memos, saved>>
    /\ UNCHANGED <<listVars, skipped, detailFailed, apiFailures>>

\* After the last attachment: build the record and append it.
BuildMemo ==
    /\ pc = "download"
    /\ att_i = Len(attachments.items)
    /\ IF memo_detail.kind = "notobj"
       THEN \* memo_detail.get raises AttributeError
            PerMemoExcept("detail")
       ELSE /\ memos' = AppendRecord(memos, MemoExport(memo_detail, attachment_refs))
            /\ memoSrc' = AppendRecord(memoSrc, idx + 1)
            /\ idx' = idx + 1
            /\ pc' = "loop"
            /\ ResetLocals
            /\ UNCHANGED <<exit_code, fatal, export_errors, errSrc>>
    /\ UNCHANGED <<user, total_memos, total_attachments>>
    /\ UNCHANGED <<listVars, fsVars, skipped, detailFailed, calls, apiFailures>>

\* save_export_data() once the for loop is exhausted, and the end of the run.
SaveExportData ==
    /\ pc = "loop"
    /\ idx = Len(all_memos)
    /\ \E ok \in BOOLEAN :
          IF ok
          THEN /\ saved' = TRUE
               /\ pc' = "exit"
               /\ exit_code' = 0
               /\ UNCHANGED fatal
          ELSE /\ OuterExcept("save")
               /\ UNCHANGED saved
    /\ UNCHANGED fs
    /\ UNCHANGED <<listVars, reportVars, loopVars, ghostVars>>

Next ==
    \/ Main
    \/ EnsureDirectories
    \/ GetCurrentUser
    \/ ListMemosPage
    \/ ListMemosFail
    \/ MemoBegin
    \/ GetMemoAttachments
    \/ DownloadAttachment
    \/ BuildMemo
    \/ SaveExportData

Spec == Init /\ [][Next]_vars

\* ------------------------------------------------------------ properties
Range(seq) == {seq[i] : i \in 1..Len(seq)}

\* The memos of the served pages, page after page.
RECURSIVE Flatten(_)
Flatten(pages) ==
    IF pages = <<>> THEN <<>>
    ELSE Flatten(SubSeq(pages, 1, Len(pages) - 1)) \o pages[Len(pages)].memos

\* The page carries a continuation token that is not empty.
NonEmptyToken(resp) == resp.token \notin {Absent, ""}

\* list_memos has returned: the last page served carried no token.
ListingReturned ==
    responses # <<>> /\ ~NonEmptyToken(responses[Len(responses)])

\* The for loop over the listing is exhausted.
LoopFinished == ListingReturned /\ idx = Len(all_memos)

\* Listing indexes of the summaries whose name is missing or empty.
EmptyNamed ==
    {i \in 1..Len(all_memos) : all_memos[i].kind = "obj" /\ all_memos[i].name = ""}

\* AttachmentRefs in the report.
RECURSIVE RefCount(_)
RefCount(ms) ==
    IF ms = <<>> THEN 0
    ELSE Len(ms[1].attachments) + RefCount(Tail(ms))

AllRefs == UNION {Range(memos[k].attachments) : k \in 1..Len(memos)}

Downloaded == {k \in 1..Len(calls) : calls[k].outcome = "path"}

\* The relative paths of the successful downloads of listing index i, in order.
RelsOf(i) ==
    LET hit(c) == c.src = i /\ c.outcome = "path"
        sel == SelectSeq(calls, hit)
    IN  [k \in 1..Len(sel) |-> sel[k].rel]

FilePaths(refs) == [k \in 1..Len(refs) |-> refs[k].file_path]

\* C1: every exception raised while one memo is processed in the loop is
\* caught by the per-memo handler: none reaches the outer handler, the memo
\* gets an error entry and no record, and a run whose listing returned and
\* whose save does not fail ends with exit code 0 and the report written.
C1_PerMemoExceptionsCaught ==
    /\ fatal # "memo"
    /\ Range(errSrc) \cap Range(memoSrc) = {}
    /\ Len(errSrc) = Len(export_errors)
    /\ (pc = "exit" /\ ListingReturned /\ fatal # "save") => (exit_code = 0 /\ saved)

\* C2: once the identity lookup or a page fetch has failed, the run has
\* ended with exit status 1, the report is not written and no memo has been
\* processed.
C2_FatalLookups ==
    apiFailures # {} =>
        /\ pc = "exit"
        /\ exit_code = 1
        /\ ~saved
        /\ idx = 0
        /\ memos = <<>>
        /\ export_errors = <<>>
        /\ skipped = {}
        /\ detailFailed = {}
        /\ calls = <<>>
        /\ total_attachments = 0

\* A page fetch fails after an earlier page already delivered memos.
C2_Witness ==
    /\ apiFailures = {"list"}
    /\ Len(responses) = 1
    /\ all_memos # <<>>
    /\ exit_code = 1

\* C3: from the return of list_memos on, total_memos is the number of
\* summaries it returned, whatever the per-memo loop does.
C3_TotalMemosIsListingLength ==
    ListingReturned => total_memos = Len(all_memos)

\* The loop has handled two memos, one skipped and one failed.
C3_Witness ==
    /\ ListingReturned
    /\ idx = 2
    /\ total_memos = 2
    /\ skipped # {}
    /\ errSrc # <<>>

\* C4 as stated: in every report written, total_memos = len(memos).
C4_Original == saved => total_memos = Len(memos)

\* C4 as amended: in every report written, total_memos is at least
\* len(memos), and equals it exactly when no listed memo raised or was
\* skipped for an empty name.
C4_TotalMemosAtLeastRecords ==
    saved =>
        /\ total_memos >= Len(memos)
        /\ total_memos = Len(memos) <=> (export_errors = <<>> /\ EmptyNamed = {})

\* A report with two listed memos, one exported and one failed.
C4_Witness ==
    /\ saved
    /\ total_memos = 2
    /\ Len(memos) = 1
    /\ Len(export_errors) = 1

\* C5: in every report written, total_attachments is the number of
\* AttachmentRefs in the records of memos.
C5_TotalAttachmentsIsRefCount ==
    saved => total_attachments = RefCount(memos)

\* C6: every successful download wrote a path inside the attachments
\* directory that did not exist before, no two returned the same relative
\* path, and every file_path in the written report names an existing file.
C6_UniqueExistingPaths ==
    /\ \A k \in Downloaded :
           calls[k].written.dir = AttachmentsDir /\ calls[k].fresh
    /\ \A j, k \in Downloaded : j # k => calls[j].rel # calls[k].rel
    /\ saved => \A ref \in AllRefs : ref.file_path \in DOMAIN fs

\* C7: list_memos sends the empty token first and then the token of the
\* previous page, keeps the memos of the pages in the order served, asks
\* for another page exactly when the last one carried a non-empty token,
\* and returns their concatenation.
C7_ListingIsConcatenation ==
    /\ all_memos = Flatten(responses)
    /\ Len(requests) \in {Len(responses), Len(responses) + 1}
    /\ \A i \in 1..Len(requests) :
           requests[i] = IF i = 1 THEN "" ELSE responses[i - 1].token
    /\ \A i \in 1..(Len(responses) - 1) : NonEmptyToken(responses[i])
    /\ pc = "list" => (responses = <<>> \/ NonEmptyToken(responses[Len(responses)]))
    /\ ListingReturned => Len(requests) = Len(responses)
    /\ (pc \notin {"main", "dirs", "user", "list"} /\ apiFailures = {}
          /\ fatal \notin {"host", "dirs"}) => ListingReturned

\* Two pages of one memo each, different memos, returned in order.
C7_Witness ==
    /\ ListingReturned
    /\ requests = <<"", "t1">>
    /\ Len(responses[1].memos) = 1
    /\ Len(responses[2].memos) = 1
    /\ all_memos[1] # all_memos[2]
    /\ all_memos = <<responses[1].memos[1], responses[2].memos[1]>>

\* C8 as stated: a processed memo whose detail fetch failed is in memos
\* with the summary's fields and no attachments, and has no error entry.
C8_Original ==
    \A i \in detailFailed : i <= idx =>
        /\ i \notin Range(errSrc)
        /\ \E k \in 1..Len(memoSrc) :
               /\ memoSrc[k] = i
               /\ memos[k].name = all_memos[i].name
               /\ memos[k].content = all_memos[i].content
               /\ memos[k].attachments = <<>>

\* C8 as amended: a processed memo whose detail fetch failed has either a
\* record or an error entry; an error entry comes from its attachment
\* processing only, and its record has the summary's fields and one
\* AttachmentRef per successful download of its attachments.
C8_DetailFailureFallsBack ==
    \A i \in detailFailed : i <= idx =>
        /\ (i \in Range(memoSrc)) # (i \in Range(errSrc))
        /\ \A k \in 1..Len(errSrc) : errSrc[k] = i =>
               export_errors[k].error \in {"attachments", "attachment"}
        /\ \A k \in 1..Len(memoSrc) : memoSrc[k] = i =>
               /\ memos[k].name = all_memos[i].name
               /\ memos[k].content = all_memos[i].content
               /\ FilePaths(memos[k].attachments) = RelsOf(i)

\* A memo whose detail fetch failed is exported with an attachment.
C8_Witness ==
    \E i \in detailFailed : \E k \in 1..Len(memoSrc) :
        /\ memoSrc[k] = i
        /\ memos[k].content = "s"
        /\ memos[k].attachments # <<>>

\* C9: download_attachment never raises to its caller, and only the
\* downloads that returned a path are counted.
C9_DownloadNeverRaises ==
    /\ \A k \in 1..Len(calls) : calls[k].outcome # "raise"
    /\ total_attachments = Cardinality(Downloaded)
    /\ \A k \in 1..Len(export_errors) : export_errors[k].error # "attachment"

\* C10: when the loop has finished every listed summary is accounted for
\* exactly once, as a record, as an error entry or as skipped for an empty
\* name; the counts add up to total_memos and the records keep the listing
\* order.
C10_EveryMemoAccountedOnce ==
    LoopFinished =>
        /\ Len(memoSrc) = Len(memos)
        /\ Len(errSrc) = Len(export_errors)
        /\ Len(memos) + Len(export_errors) + Cardinality(EmptyNamed) = total_memos
        /\ skipped = EmptyNamed
        /\ Range(memoSrc) \cap Range(errSrc) = {}
        /\ Range(memoSrc) \cap skipped = {}
        /\ Range(errSrc) \cap skipped = {}
        /\ Range(memoSrc) \cup Range(errSrc) \cup skipped = 1..Len(all_memos)
        /\ Cardinality(Range(memoSrc)) = Len(memoSrc)
        /\ Cardinality(Range(errSrc)) = Len(errSrc)
        /\ \A j, k \in 1..Len(memoSrc) : j < k => memoSrc[j] < memoSrc[k]

\* Two memos exported, in listing order, the loop finished.
C10_Witness ==
    /\ LoopFinished
    /\ memoSrc = <<1, 2>>
    /\ memos[1] # memos[2]

====
